---- MODULE Spec2Model ----
(***************************************************************************)
(* A model of autocmake's update.py: the variable interpolator             *)
(* (replace, interpolate), parse_yaml, the module documentation parser     *)
(* (parse_cmake_module), extract_list, fetch_modules and the generation    *)
(* run of main.                                                            *)
(*                                                                         *)
(* Text is modelled character by character: a Python str is a sequence of  *)
(* one-character strings, so substring tests, slicing, splitting and       *)
(* str.replace are computed as the code computes them.                     *)
(*                                                                         *)
(* A YAML value is a tagged record [t, v]:                                 *)
(*   t = "str"  v = the characters                                         *)
(*   t = "int"  v = the number                                             *)
(*   t = "list" v = the sequence of element values                         *)
(*   t = "map"  v = the sequence of [k, v] items, in dict order            *)
(***************************************************************************)
EXTENDS Integers, Sequences, FiniteSets, TLC

VARIABLES
    \* ---- interpolate(d, d_map) called on its own
    d,              \* the mapping handed to interpolate
    d_map,          \* the lookup table, a sequence of [k, v] items
    ires,           \* what the call returned, or the KeyError it raised
    ipc,            \* "idle" | "ready" | "returned" | "raised"
    \* ---- parse_cmake_module(s_in, override)
    s_in,           \* the module text, a sequence of lines
    loaded,         \* what yaml.load returns for the declaration text
    override,       \* the override table, a sequence of [k, v] items
    entry,          \* the text handed to parse_yaml (autocmake_entry)
    parsed_config,  \* the declaration parse_cmake_module returns
    plain_config,   \* the same text parsed with no override
    ppc,            \* "idle" | "ready" | "returned" | "raised"
    \* ---- main(argv) with a PROJECT_ROOT argument
    pc,             \* the position of main
    root_is_dir,    \* os.path.isdir(project_root)
    yml,            \* what yaml.load returns for autocmake.yml
    config,         \* the interpolated project configuration
    files,          \* the files on disk, by path
    dl_dir,         \* whether the directory 'downloaded' exists
    sources,        \* fetch_modules: extract_list(config, 'source')
    idx,            \* fetch_modules: sources resolved so far
    modules,        \* fetch_modules: the Module(path, name) records
    fetched,        \* the fetch_url calls made, in order
    stderr,         \* what was written to standard error
    exit_code,      \* "none" while running, else the exit status
    cmakelists,     \* CMakeLists.txt as written, or NotWritten
    setup,          \* the setup script as written, or NotWritten
    \* ---- prepend_or_set(config, section, option, value, defaults)
    python,         \* sys.version_info[0] of the interpreter: 2 or 3
    cfgp,           \* the ConfigParser object: its sections and options
    calls,          \* the calls made so far, in order
    raised,         \* "none", or the exception a call raised
    \* ---- a function of update.py called on its own
    fn,             \* the function called
    args,           \* its arguments
    ret,            \* what it returned, or NotCalled
    fpc             \* "idle" | "ready" | "returned"

ivars == <<d, d_map, ires, ipc>>
pvars == <<s_in, loaded, override, entry, parsed_config, plain_config, ppc>>
mvars == <<pc, root_is_dir, yml, config, files, dl_dir, sources, idx, modules,
           fetched, stderr, exit_code, cmakelists, setup>>
cvars == <<python, cfgp, calls, raised>>
fvars == <<fn, args, ret, fpc>>
vars == <<ivars, pvars, mvars, cvars, fvars>>

----------------------------------------------------------------------------
(* Values *)

VStr(s) == [t |-> "str", v |-> s]
VInt(n) == [t |-> "int", v |-> n]
VList(xs) == [t |-> "list", v |-> xs]
VMap(kv) == [t |-> "map", v |-> kv]
Item(key, val) == [k |-> key, v |-> val]

\* The KeyError d[var] raises for a name the table lacks.
KeyError(name) == [t |-> "KeyError", v |-> name]
IsError(x) == x.t \in {"KeyError", "IndexError"}

HasKey(kv, key) == \E n \in 1..Len(kv) : kv[n].k = key
Get(kv, key) == kv[CHOOSE n \in 1..Len(kv) : kv[n].k = key].v
Keys(kv) == {kv[n].k : n \in 1..Len(kv)}

----------------------------------------------------------------------------
(* Text *)

\* [A-Za-z0-9_], the characters of a placeholder's name.
NameChars ==
    {"a","b","c","d","e","f","g","h","i","j","k","l","m","n","o","p","q",
     "r","s","t","u","v","w","x","y","z",
     "A","B","C","D","E","F","G","H","I","J","K","L","M","N","O","P","Q",
     "R","S","T","U","V","W","X","Y","Z",
     "0","1","2","3","4","5","6","7","8","9","_"}

\* sub in s
RECURSIVE ContainsFrom(_, _, _)
ContainsFrom(s, sub, n) ==
    IF n + Len(sub) - 1 > Len(s) THEN FALSE
    ELSE IF SubSeq(s, n, n + Len(sub) - 1) = sub THEN TRUE
    ELSE ContainsFrom(s, sub, n + 1)

Contains(s, sub) == ContainsFrom(s, sub, 1)

\* s.replace(old, new): every non-overlapping occurrence, left to right.
RECURSIVE ReplaceFrom(_, _, _, _)
ReplaceFrom(s, old, new, n) ==
    IF n > Len(s) THEN <<>>
    ELSE IF n + Len(old) - 1 <= Len(s) /\ SubSeq(s, n, n + Len(old) - 1) = old
         THEN new \o ReplaceFrom(s, old, new, n + Len(old))
         ELSE <<s[n]>> \o ReplaceFrom(s, old, new, n + 1)

StrReplace(s, old, new) == ReplaceFrom(s, old, new, 1)

Digit(n) == CASE n = 0 -> "0" [] n = 1 -> "1" [] n = 2 -> "2" [] n = 3 -> "3"
              [] n = 4 -> "4" [] n = 5 -> "5" [] n = 6 -> "6" [] n = 7 -> "7"
              [] n = 8 -> "8" [] n = 9 -> "9"

RECURSIVE Digits(_)
Digits(n) == IF n < 10 THEN <<Digit(n)>> ELSE Digits(n \div 10) \o <<Digit(n % 10)>>

\* str(x) and, for the elements of a container, repr(x).
RECURSIVE Repr(_), ReprList(_, _), ReprItems(_, _)
Repr(x) ==
    CASE x.t = "str" -> <<"'">> \o x.v \o <<"'">>
      [] x.t = "int" -> Digits(x.v)
      [] x.t = "list" -> <<"[">> \o ReprList(x.v, 1) \o <<"]">>
      [] x.t = "map" -> <<"{">> \o ReprItems(x.v, 1) \o <<"}">>

ReprList(xs, n) ==
    IF n > Len(xs) THEN <<>>
    ELSE (IF n > 1 THEN <<",", " ">> ELSE <<>>) \o Repr(xs[n]) \o ReprList(xs, n + 1)

ReprItems(kv, n) ==
    IF n > Len(kv) THEN <<>>
    ELSE (IF n > 1 THEN <<",", " ">> ELSE <<>>)
         \o <<"'">> \o kv[n].k \o <<"'", ":", " ">> \o Repr(kv[n].v)
         \o ReprItems(kv, n + 1)

StrOf(x) == IF x.t = "str" THEN x.v ELSE Repr(x)

----------------------------------------------------------------------------
(* replace(s, d), update.py 36-41 *)

\* Where the match of %\(([A-Za-z0-9_]*)\) that starts at n ends, or 0.
RECURSIVE NameEnd(_, _)
NameEnd(s, n) == IF n <= Len(s) /\ s[n] \in NameChars THEN NameEnd(s, n + 1) ELSE n

MatchEnd(s, n) ==
    IF n + 1 <= Len(s) /\ s[n] = "%" /\ s[n + 1] = "("
    THEN LET e == NameEnd(s, n + 2)
         IN IF e <= Len(s) /\ s[e] = ")" THEN e ELSE 0
    ELSE 0

\* findall: the names of the non-overlapping matches, left to right.
RECURSIVE FindAllFrom(_, _)
FindAllFrom(s, n) ==
    IF n > Len(s) THEN <<>>
    ELSE LET e == MatchEnd(s, n)
         IN IF e > 0 THEN <<SubSeq(s, n + 2, e - 1)>> \o FindAllFrom(s, e + 1)
            ELSE FindAllFrom(s, n + 1)

FindAll(s) == FindAllFrom(s, 1)

Placeholder(var) == <<"%", "(">> \o var \o <<")">>

\* The loop of replace: one s.replace per name found in the original string.
RECURSIVE ReplaceVars(_, _, _, _)
ReplaceVars(s, found, n, table) ==
    IF n > Len(found) THEN VStr(s)
    ELSE IF ~HasKey(table, found[n]) THEN KeyError(found[n])
    ELSE ReplaceVars(StrReplace(s, Placeholder(found[n]), StrOf(Get(table, found[n]))),
                     found, n + 1, table)

replace(s, table) ==
    IF s.t = "str" THEN ReplaceVars(s.v, FindAll(s.v), 1, table) ELSE s

----------------------------------------------------------------------------
(* interpolate(d, d_map), update.py 51-66 *)

\* The dict is rewritten in place, item by item.  With self = TRUE the lookup
\* table is the dict itself (parse_yaml's interpolate(config, config)): an item
\* is looked up in the dict as rewritten so far.  A nested mapping and the
\* elements of a list are looked up in the table as it stands when their item
\* is reached.
RECURSIVE InterpItems(_, _, _, _), InterpList(_, _, _)
InterpItems(kv, n, table, self) ==
    IF n > Len(kv) THEN VMap(kv)
    ELSE LET tbl == IF self THEN kv ELSE table
             val == kv[n].v
             new == IF val.t = "map" THEN InterpItems(val.v, 1, tbl, FALSE)
                    ELSE IF val.t = "list" THEN InterpList(val.v, 1, tbl)
                    ELSE replace(val, tbl)
         IN IF IsError(new) THEN new
            ELSE InterpItems([kv EXCEPT ![n].v = new], n + 1, table, self)

\* l.append(...) for each x of a list: a mapping is interpolated, anything
\* else goes through replace, which leaves a non-string as it is.
InterpList(xs, n, table) ==
    IF n > Len(xs) THEN VList(<<>>)
    ELSE LET new == IF xs[n].t = "map" THEN InterpItems(xs[n].v, 1, table, FALSE)
                    ELSE replace(xs[n], table)
             rest == InterpList(xs, n + 1, table)
         IN IF IsError(new) THEN new
            ELSE IF IsError(rest) THEN rest
            ELSE VList(<<new>> \o rest.v)

interpolate(dd, table) == InterpItems(dd.v, 1, table, FALSE)

\* interpolate(config, config): the table is the dict being rewritten.
interpolate_self(dd) == InterpItems(dd.v, 1, <<>>, TRUE)

----------------------------------------------------------------------------
(* Strings used by the bounded inputs *)

S_p == <<"p">>
S_a == <<"%", "(", "a", ")">>
S_qab == <<"q", "%", "(", "a", ")", "%", "(", "b", ")">>
S_z == <<"%", "(", "z", ")">>
N_a == <<"a">>
N_b == <<"b">>
N_k == <<"k">>
N_j == <<"j">>

----------------------------------------------------------------------------
(* interpolate called on its own: test_interpolate, update.py 69-83 *)

\* How deep the containers of a bounded input nest.
MaxDepth == 2

Scalars == {VStr(S_p), VStr(S_a), VStr(S_qab), VStr(S_z), VInt(7)}

RECURSIVE Values(_)
Values(n) ==
    IF n = 0 THEN Scalars
    ELSE LET below == Values(n - 1)
         IN below \cup {VList(<<x>>) : x \in below}
                  \cup {VMap(<<Item(N_j, x)>>) : x \in below}

InterpInputs ==
    {VMap(<<Item(N_k, x)>>) : x \in Values(MaxDepth)}
        \cup {VMap(<<Item(N_k, x), Item(N_j, VList(<<y, x>>))>>) : x, y \in Scalars}

InterpTables ==
    {<<Item(N_a, VStr(<<"x">>)), Item(N_b, VInt(1))>>,
     <<Item(N_a, VInt(2))>>}

IdleInterp == d = VMap(<<>>) /\ d_map = <<>> /\ ires = VMap(<<>>) /\ ipc = "idle"

IdleParse ==
    /\ s_in = <<>> /\ loaded = VMap(<<>>) /\ override = <<>> /\ entry = <<>>
    /\ parsed_config = [t |-> "none", v |-> <<>>]
    /\ plain_config = [t |-> "none", v |-> <<>>]
    /\ ppc = "idle"

NotWritten == [written |-> FALSE]

IdleMain ==
    /\ pc = "idle" /\ root_is_dir = FALSE /\ yml = VMap(<<>>) /\ config = VMap(<<>>)
    /\ files = {} /\ dl_dir = FALSE /\ sources = <<>> /\ idx = 0 /\ modules = <<>>
    /\ fetched = <<>> /\ stderr = <<>> /\ exit_code = "none"
    /\ cmakelists = NotWritten /\ setup = NotWritten

NotCalled == [t |-> "NotCalled", v |-> <<>>]

IdlePrepend ==
    /\ python = 2 /\ cfgp = [sections |-> {}, opts |-> <<>>] /\ calls = <<>>
    /\ raised = "none"

IdleCall == fn = "none" /\ args = <<>> /\ ret = NotCalled /\ fpc = "idle"

InitInterp ==
    /\ d \in InterpInputs
    /\ d_map \in InterpTables
    /\ ires = VMap(<<>>)
    /\ ipc = "ready"
    /\ IdleParse
    /\ IdleMain
    /\ IdlePrepend
    /\ IdleCall

\* interpolate(d, d_map) returns the rewritten mapping or raises KeyError.
CallInterpolate ==
    /\ ipc = "ready"
    /\ LET r == interpolate(d, d_map)
       IN /\ ires' = r
          /\ ipc' = IF IsError(r) THEN "raised" ELSE "returned"
    /\ UNCHANGED <<d, d_map, pvars, mvars, cvars, fvars>>

NextInterp == CallInterpolate

SpecInterp == InitInterp /\ [][NextInterp]_vars

----------------------------------------------------------------------------
(* What the interpolator's contract says of a value *)

\* The names of the placeholders of every string reachable through mapping
\* values and sequence elements, at any depth.
RECURSIVE RefsOf(_), RefsOfSeq(_, _), RefsOfItems(_, _)
RefsOf(x) ==
    CASE x.t = "str" -> {FindAll(x.v)[n] : n \in 1..Len(FindAll(x.v))}
      [] x.t = "list" -> RefsOfSeq(x.v, 1)
      [] x.t = "map" -> RefsOfItems(x.v, 1)
      [] OTHER -> {}

RefsOfSeq(xs, n) == IF n > Len(xs) THEN {} ELSE RefsOf(xs[n]) \cup RefsOfSeq(xs, n + 1)

RefsOfItems(kv, n) ==
    IF n > Len(kv) THEN {} ELSE RefsOf(kv[n].v) \cup RefsOfItems(kv, n + 1)

\* A string with each occurrence of %(name) replaced by str(table[name]).
RECURSIVE SubstFrom(_, _, _)
SubstFrom(s, n, table) ==
    IF n > Len(s) THEN <<>>
    ELSE LET e == MatchEnd(s, n)
         IN IF e > 0
            THEN StrOf(Get(table, SubSeq(s, n + 2, e - 1))) \o SubstFrom(s, e + 1, table)
            ELSE <<s[n]>> \o SubstFrom(s, n + 1, table)

\* The same shape and keys, every reachable string substituted.
RECURSIVE Substituted(_, _)
Substituted(x, table) ==
    CASE x.t = "str" -> VStr(SubstFrom(x.v, 1, table))
      [] x.t = "list" -> VList([n \in 1..Len(x.v) |-> Substituted(x.v[n], table)])
      [] x.t = "map" ->
            VMap([n \in 1..Len(x.v) |-> Item(x.v[n].k, Substituted(x.v[n].v, table))])
      [] OTHER -> x

InterpDone == ipc \in {"returned", "raised"}

\* C6: when the table defines every referenced name, interpolate returns the
\* value with the same shape and keys in which every string reachable through
\* mapping values and sequence elements, a sequence inside a sequence
\* included, has each %(name) replaced by str(table[name]), and everything
\* else is unchanged.
C6_InterpolateSubstitutesEveryString ==
    (InterpDone /\ RefsOf(d) \subseteq Keys(d_map))
        => (ipc = "returned" /\ ires = Substituted(d, d_map))

\* C7: when a reachable string holds a placeholder whose name the table
\* lacks, interpolate raises a lookup error; a returned result never holds
\* the placeholder of an undefined name.
C7_UndefinedNameRaises ==
    /\ (InterpDone /\ ~(RefsOf(d) \subseteq Keys(d_map)))
            => (ipc = "raised" /\ ires.t = "KeyError")
    /\ ipc = "returned" => RefsOf(ires) \subseteq Keys(d_map)

----------------------------------------------------------------------------
(* More text: joining, splitting *)

NL == "\n"

\* '\n'.join(lines)
RECURSIVE JoinFrom(_, _)
JoinFrom(lines, n) ==
    IF n > Len(lines) THEN <<>>
    ELSE (IF n > 1 THEN <<NL>> ELSE <<>>) \o lines[n] \o JoinFrom(lines, n + 1)

Join(lines) == JoinFrom(lines, 1)

\* Where the first occurrence of sub at or after n starts, or 0.
RECURSIVE IndexFrom(_, _, _)
IndexFrom(s, sub, n) ==
    IF n + Len(sub) - 1 > Len(s) THEN 0
    ELSE IF SubSeq(s, n, n + Len(sub) - 1) = sub THEN n
    ELSE IndexFrom(s, sub, n + 1)

\* s.split(sep)
RECURSIVE SplitFrom(_, _, _)
SplitFrom(s, sep, n) ==
    LET at == IndexFrom(s, sep, n)
    IN IF at = 0 THEN <<SubSeq(s, n, Len(s))>>
       ELSE <<SubSeq(s, n, at - 1)>> \o SplitFrom(s, sep, at + Len(sep))

Split(s, sep) == SplitFrom(s, sep, 1)

----------------------------------------------------------------------------
(* yaml.load(stream, yaml.SafeLoader), update.py 108 *)

\* The library is modelled on the documents the bounded inputs produce: a
\* flat block mapping, one "key: value" per line with a plain scalar value,
\* blank lines between.  Digits load as an int, anything else as a str.  A
\* line of any other form at column 0 (prose, say) is a scanner error beside
\* a mapping line; a document of such lines only is one plain scalar, and a
\* document of blank lines loads as None.

Digits09 == {"0","1","2","3","4","5","6","7","8","9"}

DigitValue(c) == CHOOSE n \in 0..9 : Digit(n) = c

RECURSIVE IntOf(_, _)
IntOf(s, n) == IF n = 0 THEN 0 ELSE 10 * IntOf(s, n - 1) + DigitValue(s[n])

IsBlank(line) == \A n \in 1..Len(line) : line[n] = " "

\* "key: value" with a non-empty key of name characters at column 0.
IsMappingLine(line) ==
    LET e == NameEnd(line, 1)
    IN e > 1 /\ e + 2 <= Len(line) /\ line[e] = ":" /\ line[e + 1] = " "

LineKey(line) == SubSeq(line, 1, NameEnd(line, 1) - 1)

LineValue(line) ==
    LET txt == SubSeq(line, NameEnd(line, 1) + 2, Len(line))
    IN IF \A n \in 1..Len(txt) : txt[n] \in Digits09
       THEN VInt(IntOf(txt, Len(txt))) ELSE VStr(txt)

\* dict[key] = value: a repeated key keeps its place and takes the last value.
SetItem(kv, key, val) ==
    IF HasKey(kv, key)
    THEN [n \in 1..Len(kv) |-> IF kv[n].k = key THEN Item(key, val) ELSE kv[n]]
    ELSE Append(kv, Item(key, val))

RECURSIVE LoadLines(_, _, _)
LoadLines(lines, n, kv) ==
    IF n > Len(lines) THEN (IF kv = <<>> THEN [t |-> "none", v |-> <<>>] ELSE VMap(kv))
    ELSE IF IsBlank(lines[n]) THEN LoadLines(lines, n + 1, kv)
    ELSE IF IsMappingLine(lines[n])
         THEN LoadLines(lines, n + 1, SetItem(kv, LineKey(lines[n]), LineValue(lines[n])))
    ELSE IF kv = <<>> /\ \A m \in (n + 1)..Len(lines) : ~IsMappingLine(lines[m])
         THEN [t |-> "scalar", v |-> lines[n]]
    ELSE [t |-> "YAMLError", v |-> lines[n]]

YamlLoad(text) == LoadLines(Split(text, <<NL>>), 1, <<>>)

----------------------------------------------------------------------------
(* parse_yaml(stream, override), update.py 104-118 *)

\* for k in config: if k in override: config[k] = override[k]
ApplyOverride(kv, ov) ==
    [n \in 1..Len(kv) |->
        IF HasKey(ov, kv[n].k) THEN Item(kv[n].k, Get(ov, kv[n].k)) ELSE kv[n]]

\* The override applied once the config is interpolated: the two steps of
\* parse_yaml in the other order.
parse_yaml_OverrideLast(text, ov) ==
    LET doc == YamlLoad(text)
        cfg == interpolate_self(doc)
    IN IF doc.t # "map" THEN [t |-> "SystemExit", v |-> <<>>]
       ELSE IF IsError(cfg) THEN cfg
       ELSE VMap(ApplyOverride(cfg.v, ov))

\* A YAML error exits (SystemExit).  None fails in 'for k in config'
\* (TypeError) and a scalar document in interpolate, which calls its
\* items() (AttributeError).  A mapping is overridden key by key and then
\* interpolated with itself.
parse_yaml(text, ov) ==
    LET doc == YamlLoad(text)
    IN CASE doc.t = "YAMLError" -> [t |-> "SystemExit", v |-> <<>>]
         [] doc.t = "none" -> [t |-> "TypeError", v |-> <<>>]
         [] doc.t = "scalar" -> [t |-> "AttributeError", v |-> <<>>]
         [] OTHER -> interpolate_self(VMap(ApplyOverride(doc.v, ov)))

----------------------------------------------------------------------------
(* parse_cmake_module(s_in, override), update.py 537-571 *)

Marker == <<"a", "u", "t", "o", "c", "m", "a", "k", "e", ".", "y", "m", "l", " ", "c", "o", "n", "f", "i", "g", "u", "r", "a", "t", "i", "o", "n", ":", ":">>

RstTag == <<"#", ".", "r", "s", "t", ":">>

\* The test made on the wrong token: '#.rst:' in s_in.
MarkerPresent_RstTag(lines) == \E n \in 1..Len(lines) : Contains(lines[n], RstTag)

\* 'autocmake.yml configuration::' in s_in: the marker holds no line break,
\* so it is in the text exactly when it is in one of its lines.
MarkerPresent(lines) == \E n \in 1..Len(lines) : Contains(lines[n], Marker)

\* The loop over s_in.split('\n'): s_out collects line[2:] of every line
\* read while is_rst_line, which a line holding '#.rst:' sets and an empty
\* line or a line not starting with '#' clears.
RECURSIVE RstLines(_, _, _)
RstLines(lines, n, is_rst_line) ==
    IF n > Len(lines) THEN <<>>
    ELSE LET line == lines[n]
             still == is_rst_line /\ Len(line) > 0 /\ line[1] = "#"
             out == IF still THEN <<SubSeq(line, 3, Len(line))>> ELSE <<>>
         IN out \o RstLines(lines, n + 1, still \/ Contains(line, RstTag))

\* '\n'.join(s_out).split(marker)[1], then .replace('\n  ', '\n')
EntryParts(lines) == Split(Join(RstLines(lines, 1, FALSE)), Marker)

AutocmakeEntry(lines) ==
    StrReplace(EntryParts(lines)[2], <<NL, " ", " ">>, <<NL>>)

\* parsed_config[k]: a list is copied, iterating a dict gives its keys,
\* anything else is wrapped in a one-element list.
Normalized(kv) ==
    [n \in 1..Len(kv) |->
        Item(kv[n].k,
             IF kv[n].v.t = "list" THEN kv[n].v
             ELSE IF kv[n].v.t = "map"
                  THEN VList([m \in 1..Len(kv[n].v.v) |-> VStr(kv[n].v.v[m].k)])
             ELSE VList(<<kv[n].v>>))]

\* The call: [status, entry, config].  status is "returned" or the failure.
parse_cmake_module(lines, ov) ==
    IF ~MarkerPresent(lines)
    THEN [status |-> "returned", entry |-> <<>>, config |-> <<>>]
    ELSE IF Len(EntryParts(lines)) < 2
    THEN [status |-> "IndexError", entry |-> <<>>, config |-> <<>>]
    ELSE LET txt == AutocmakeEntry(lines)
             cfg == parse_yaml(txt, ov)
         IN IF cfg.t # "map"
            THEN [status |-> cfg.t, entry |-> txt, config |-> <<>>]
            ELSE [status |-> "returned", entry |-> txt, config |-> Normalized(cfg.v)]

\* collections.defaultdict(lambda: None): a missing key reads as None.
None == [t |-> "None", v |-> <<>>]

Lookup(cfg, key) == IF HasKey(cfg, key) THEN Get(cfg, key) ELSE None

----------------------------------------------------------------------------
(* Module texts: the lines of the tests at update.py 576-662 *)

L_rst == RstTag
L_hash == <<"#">>
L_marker == <<"#", " ">> \o Marker
L_prose == <<"#", " ", "t">>
L_blank == <<>>
L_code == <<"c">>
L_major == <<"#", " ", " ", " ", "m", "a", "j", "o", "r", ":", " ", "1">>
L_minor == <<"#", " ", " ", " ", "m", "i", "n", "o", "r", ":", " ", "2">>
L_patch == <<"#", " ", " ", " ", "p", "a", "t", "c", "h", ":", " ", "3">>
L_a == <<"#", " ", " ", " ", "a", ":", " ", "v", "%", "(", "m", "a", "j", "o", "r", ")">>
L_b == <<"#", " ", " ", " ", "b", ":", " ", "v", "%", "(", "m", "i", "n", "o", "r", ")">>
L_c == <<"#", " ", " ", " ", "c", ":", " ", "v", "%", "(", "p", "a", "t", "c", "h", ")">>
\* a field that references another field, which references minor
L_e == <<"#", " ", " ", " ", "e", ":", " ", "w", "%", "(", "b", ")">>
\* a field that references a name no line declares
L_u == <<"#", " ", " ", " ", "u", ":", " ", "%", "(", "z", ")">>

N_major == <<"m", "a", "j", "o", "r">>
N_minor == <<"m", "i", "n", "o", "r">>
N_patch == <<"p", "a", "t", "c", "h">>
N_c == <<"c">>
N_e == <<"e">>
N_docopt == <<"d", "o", "c", "o", "p", "t">>
N_define == <<"d", "e", "f", "i", "n", "e">>
N_export == <<"e", "x", "p", "o", "r", "t">>
N_warning == <<"w", "a", "r", "n", "i", "n", "g">>
N_fetch == <<"f", "e", "t", "c", "h">>
N_source == <<"s", "o", "u", "r", "c", "e">>

\* How many lines a free-form module text has, and how many declaration
\* lines a declaration block has.
MaxLines == 4
MaxDecl == 3

RECURSIVE SeqsUpTo(_, _)
SeqsUpTo(S, n) ==
    IF n = 0 THEN {<<>>}
    ELSE LET shorter == SeqsUpTo(S, n - 1)
         IN shorter \cup {Append(q, x) : q \in shorter, x \in S}

NoRepeat(q) == \A m, n \in 1..Len(q) : m # n => q[m] # q[n]

\* Any lines in any order: a marker inside or outside the '#.rst:' block,
\* dedented prose after the declaration, a second block.
FreeTexts == SeqsUpTo({L_rst, L_marker, L_minor, L_prose, L_blank, L_code}, MaxLines)

TextHead == <<L_rst, L_hash, L_prose, L_hash, L_marker, L_hash>>
TextTail == <<L_blank, L_code>>

\* test_parse_cmake_module_interpolate, update.py 620-633
TestText == TextHead \o <<L_major, L_minor, L_patch, L_a, L_b, L_c>> \o TextTail

\* Declaration blocks of the test's lines, in any order.
BlockTexts ==
    {TextHead \o q \o TextTail :
        q \in {r \in SeqsUpTo({L_major, L_minor, L_a, L_b, L_e, L_u}, MaxDecl) : NoRepeat(r)}}

\* test_parse_cmake_module_override's d = {'minor': 4}, and others.
Overrides ==
    {<<>>,
     <<Item(N_minor, VInt(4))>>,
     <<Item(N_major, VInt(5)), Item(N_patch, VInt(6))>>,
     <<Item(N_b, VStr(<<"u">>))>>}

\* What a call left: the defaultdict it returned, or the failure it ended in.
Outcome(r) ==
    IF r.status = "returned" THEN [t |-> "defaultdict", v |-> r.config]
    ELSE [t |-> r.status, v |-> <<>>]

NoOutcome == [t |-> "none", v |-> <<>>]

InitParse ==
    /\ \/ s_in \in FreeTexts /\ override = <<>>
       \/ s_in \in BlockTexts \cup {TestText} /\ override \in Overrides
    /\ loaded = VMap(<<>>)
    /\ entry = <<>>
    /\ parsed_config = NoOutcome
    /\ plain_config = NoOutcome
    /\ ppc = "ready"
    /\ IdleInterp
    /\ IdleMain
    /\ IdlePrepend
    /\ IdleCall

\* parse_cmake_module(s_in, override).  loaded records what yaml.load gave
\* and plain_config what parse_cmake_module(s_in) gives with no override,
\* for the claims to compare with.
CallParseCmakeModule ==
    /\ ppc = "ready"
    /\ LET r == parse_cmake_module(s_in, override)
           plain == parse_cmake_module(s_in, <<>>)
       IN /\ ppc' = IF r.status = "returned" THEN "returned" ELSE "raised"
          /\ entry' = r.entry
          /\ parsed_config' = Outcome(r)
          /\ plain_config' = Outcome(plain)
          /\ loaded' = IF r.status = "returned" /\ MarkerPresent(s_in)
                       THEN YamlLoad(r.entry) ELSE VMap(<<>>)
    /\ UNCHANGED <<s_in, override, ivars, mvars, cvars, fvars>>

NextParse == CallParseCmakeModule

SpecParse == InitParse /\ [][NextParse]_vars

----------------------------------------------------------------------------
(* What the module documentation parser's contract says *)

ParseDone == ppc \in {"returned", "raised"}

\* The text holds the declaration marker somewhere.
HoldsMarker(lines) == Contains(Join(lines), Marker)

ProbeKeys == {N_docopt, N_define, N_export, N_warning, N_fetch, N_minor, <<>>}

\* C8: for a module text without the marker 'autocmake.yml configuration::',
\* parse_cmake_module returns, and the lookup of any field name in what it
\* returns gives None, never a missing-key error.
C8_NoMarkerEveryLookupIsNone ==
    (ParseDone /\ ~HoldsMarker(s_in))
        => (ppc = "returned" /\ \A key \in ProbeKeys : Lookup(parsed_config.v, key) = None)

\* A text with a '#.rst:' comment block and no marker was parsed
\* (test_parse_cmake_module_no_key).
C8_Witness ==
    /\ ppc = "returned"
    /\ ~HoldsMarker(s_in)
    /\ Len(s_in) >= 3 /\ s_in[1] = L_rst /\ s_in[2] = L_prose
    /\ Lookup(parsed_config.v, N_docopt) = None

\* The names a raw field value references directly.
DirectRefs(x) == IF x.t = "str" THEN {FindAll(x.v)[n] : n \in 1..Len(FindAll(x.v))} ELSE {}

\* The keys a field's value depends on: the names it references and, through
\* the fields of those names, the names they reference.
RECURSIVE ReachFrom(_, _, _)
ReachFrom(kv, names, n) ==
    IF n = 0 THEN names
    ELSE ReachFrom(kv,
                   names \cup UNION {DirectRefs(Get(kv, k)) : k \in names \cap Keys(kv)},
                   n - 1)

Reach(kv, key) == ReachFrom(kv, DirectRefs(Get(kv, key)), Len(kv))

Overridden == Keys(loaded.v) \cap Keys(override)

PlaceholderFree(x) == DirectRefs(x) = {}

\* Each key present in both takes the override's value.
OverrideTaken ==
    \A k \in Overridden :
        PlaceholderFree(Get(override, k))
            => Lookup(parsed_config.v, k) = VList(<<Get(override, k)>>)

\* A field whose text references overridden keys is interpolated with the
\* overriding values.
OverrideInterpolated ==
    \A f \in Keys(loaded.v) \ Overridden :
        LET raw == Get(loaded.v, f)
        IN (DirectRefs(raw) # {} /\ DirectRefs(raw) \subseteq Overridden
                /\ \A k \in DirectRefs(raw) : PlaceholderFree(Get(override, k)))
            => Lookup(parsed_config.v, f) = VList(<<VStr(SubstFrom(raw.v, 1, override))>>)

\* C9 as stated: the override is applied before interpolation, and every
\* field that references no overridden key has the same value as when the
\* text is parsed without an override.
C9_Original ==
    (ppc = "returned" /\ plain_config.t = "defaultdict") =>
        /\ OverrideTaken
        /\ OverrideInterpolated
        /\ \A f \in Keys(loaded.v) \ Overridden :
              DirectRefs(Get(loaded.v, f)) \cap Overridden = {}
                  => Lookup(parsed_config.v, f) = Lookup(plain_config.v, f)

\* C9, amended: the override is applied before interpolation: each key
\* present in both takes the override's value, a field whose text references
\* overridden keys is interpolated with the overriding values, and every
\* field that references no overridden key, neither in its own text nor
\* through the fields it references, has the same value as when the text is
\* parsed without an override.
C9_OverrideBeforeInterpolation ==
    (ppc = "returned" /\ plain_config.t = "defaultdict") =>
        /\ OverrideTaken
        /\ OverrideInterpolated
        /\ \A f \in Keys(loaded.v) \ Overridden :
              Reach(loaded.v, f) \cap Overridden = {}
                  => Lookup(parsed_config.v, f) = Lookup(plain_config.v, f)

\* test_parse_cmake_module_override: b = ['v4'], a = ['v1'], c = ['v3'].
C9_Witness ==
    /\ ppc = "returned"
    /\ s_in = TestText
    /\ override = <<Item(N_minor, VInt(4))>>
    /\ Lookup(parsed_config.v, N_b) = VList(<<VStr(<<"v", "4">>)>>)
    /\ Lookup(parsed_config.v, N_a) = VList(<<VStr(<<"v", "1">>)>>)
    /\ Lookup(parsed_config.v, N_c) = VList(<<VStr(<<"v", "3">>)>>)
    /\ Lookup(plain_config.v, N_b) = VList(<<VStr(<<"v", "2">>)>>)

\* The lines after the first '#.rst:' line, up to the first line that is
\* empty or is no comment: the leading comment block.
RECURSIVE BlockFrom(_, _)
BlockFrom(lines, n) ==
    IF n > Len(lines) \/ Len(lines[n]) = 0 \/ lines[n][1] # "#" THEN <<>>
    ELSE <<lines[n]>> \o BlockFrom(lines, n + 1)

FirstWith(lines, sub) ==
    IF \E n \in 1..Len(lines) : Contains(lines[n], sub)
    THEN CHOOSE n \in 1..Len(lines) :
            Contains(lines[n], sub) /\ \A m \in 1..(n - 1) : ~Contains(lines[m], sub)
    ELSE 0

LeadingBlock(lines) ==
    IF FirstWith(lines, RstTag) = 0 THEN <<>>
    ELSE BlockFrom(lines, FirstWith(lines, RstTag) + 1)

\* A comment line whose text, after the '# ' prefix, keeps the two-space
\* indent or is blank.
Indented(line) ==
    \/ IsBlank(SubSeq(line, 2, Len(line)))
    \/ Len(line) >= 4 /\ line[3] = " " /\ line[4] = " "

RECURSIVE IndentedFrom(_, _)
IndentedFrom(block, n) ==
    IF n > Len(block) \/ ~Indented(block[n]) THEN <<>>
    ELSE (IF IsBlank(SubSeq(block[n], 2, Len(block[n]))) THEN <<>>
          ELSE <<SubSeq(block[n], 5, Len(block[n]))>>)
         \o IndentedFrom(block, n + 1)

\* The declaration lines the format names: those of the leading comment
\* block after the marker line, up to the first comment line that returns
\* to less than the two-space indent.
DeclarationLines(lines) ==
    LET block == LeadingBlock(lines)
        at == FirstWith(block, Marker)
    IN IF at = 0 THEN <<>> ELSE IndentedFrom(block, at + 1)

NonBlank(lines) == SelectSeq(lines, LAMBDA line : ~IsBlank(line))

\* C10: the declaration text handed to the structured-data parser consists
\* only of the lines of the leading comment block that follow the marker
\* line, and ends at the first non-comment line or at the first comment line
\* whose indentation returns to less than two spaces; lines after such a
\* dedent, lines of a later comment block and a marker outside the leading
\* block contribute nothing.
C10_EntryIsTheIndentedBlock ==
    (ParseDone /\ HoldsMarker(s_in) /\ parsed_config.t # "IndexError")
        => NonBlank(Split(entry, <<NL>>)) = DeclarationLines(s_in)

----------------------------------------------------------------------------
(* Paths: os.path.basename, dirname, join, exists *)

\* Where the last '/' of p is, or 0.
RECURSIVE LastSlash(_, _)
LastSlash(p, n) == IF n = 0 \/ p[n] = "/" THEN n ELSE LastSlash(p, n - 1)

basename(p) == SubSeq(p, LastSlash(p, Len(p)) + 1, Len(p))

\* s.rstrip('/')
RECURSIVE RStripSlash(_)
RStripSlash(p) ==
    IF Len(p) > 0 /\ p[Len(p)] = "/" THEN RStripSlash(SubSeq(p, 1, Len(p) - 1)) ELSE p

\* The head up to the last slash, its trailing slashes removed unless it is
\* made of slashes only.
dirname(p) ==
    LET head == SubSeq(p, 1, LastSlash(p, Len(p)))
    IN IF head # <<>> /\ \E n \in 1..Len(head) : head[n] # "/"
       THEN RStripSlash(head) ELSE head

PathJoin(a, b) ==
    IF Len(b) > 0 /\ b[1] = "/" THEN b
    ELSE IF a = <<>> \/ a[Len(a)] = "/" THEN a \o b
    ELSE a \o <<"/">> \o b

\* s.rstrip(): trailing whitespace removed.
Whitespace == {" ", "\t", NL}

RECURSIVE RStrip(_)
RStrip(q) ==
    IF Len(q) > 0 /\ q[Len(q)] \in Whitespace THEN RStrip(SubSeq(q, 1, Len(q) - 1)) ELSE q

RECURSIVE LStrip(_)
LStrip(q) ==
    IF Len(q) > 0 /\ q[1] \in Whitespace THEN LStrip(SubSeq(q, 2, Len(q))) ELSE q

\* s.split(): the words between runs of whitespace.
RECURSIVE WordEnd(_, _)
WordEnd(q, n) == IF n <= Len(q) /\ q[n] \notin Whitespace THEN WordEnd(q, n + 1) ELSE n

RECURSIVE SplitWsFrom(_, _)
SplitWsFrom(q, n) ==
    IF n > Len(q) THEN <<>>
    ELSE IF q[n] \in Whitespace THEN SplitWsFrom(q, n + 1)
    ELSE <<SubSeq(q, n, WordEnd(q, n) - 1)>> \o SplitWsFrom(q, WordEnd(q, n))

SplitWs(q) == SplitWsFrom(q, 1)

\* ' '.join(words)
RECURSIVE JoinSpace(_, _)
JoinSpace(words, n) ==
    IF n > Len(words) THEN <<>>
    ELSE (IF n > 1 THEN <<" ">> ELSE <<>>) \o words[n] \o JoinSpace(words, n + 1)

----------------------------------------------------------------------------
(* extract_list(config, section), update.py 327-340 *)

\* for x in v: a section that holds a list gives its elements, any other
\* value gives itself.
\* Every value is appended as it is.
Contribution_Whole(x, section) ==
    IF x.t = "map" /\ HasKey(x.v, section) THEN <<Get(x.v, section)>> ELSE <<>>

\* if section in x: an Iterable that is not a str gives its elements (a
\* list its items, a dict its keys), anything else is appended itself.
Contribution(x, section) ==
    IF x.t = "map" /\ HasKey(x.v, section)
    THEN (IF Get(x.v, section).t = "list" THEN Get(x.v, section).v
          ELSE IF Get(x.v, section).t = "map"
               THEN [n \in 1..Len(Get(x.v, section).v) |-> VStr(Get(x.v, section).v[n].k)]
          ELSE <<Get(x.v, section)>>)
    ELSE <<>>

\* for x in v
RECURSIVE ExtractEntries(_, _, _)
ExtractEntries(xs, n, section) ==
    IF n > Len(xs) THEN <<>>
    ELSE Contribution(xs[n], section) \o ExtractEntries(xs, n + 1, section)

\* for k, v in module.items()
RECURSIVE ExtractItems(_, _, _)
ExtractItems(kv, n, section) ==
    IF n > Len(kv) THEN <<>>
    ELSE ExtractEntries(kv[n].v.v, 1, section) \o ExtractItems(kv, n + 1, section)

\* for module in config['modules']
RECURSIVE ExtractModules(_, _, _)
ExtractModules(ms, n, section) ==
    IF n > Len(ms) THEN <<>>
    ELSE ExtractItems(ms[n].v, 1, section) \o ExtractModules(ms, n + 1, section)

N_modules == <<"m", "o", "d", "u", "l", "e", "s">>
N_name == <<"n", "a", "m", "e">>
N_min_cmake_version == <<"m", "i", "n", "_", "c", "m", "a", "k", "e", "_", "v", "e", "r", "s", "i", "o", "n">>
N_setup_script == <<"s", "e", "t", "u", "p", "_", "s", "c", "r", "i", "p", "t">>

extract_list(cfg, section) ==
    IF HasKey(cfg.v, N_modules)
    THEN ExtractModules(Get(cfg.v, N_modules).v, 1, section)
    ELSE <<>>

----------------------------------------------------------------------------
(* align_options(options), update.py 134-145 *)

RECURSIVE MaxFlagLen(_, _, _)
MaxFlagLen(options, n, l) ==
    IF n > Len(options) THEN l
    ELSE MaxFlagLen(options, n + 1, IF Len(options[n][1]) > l THEN Len(options[n][1]) ELSE l)

Spaces(n) == [m \in 1..n |-> " "]

\* '  {0}{1}  {2}'.format(opt[0], ' ' * (l - len(opt[0])), opt[1])
\* The row with its flag not padded.
OptionLine_NoPad(opt, l) == <<" ", " ">> \o opt[1] \o <<" ", " ">> \o opt[2]

OptionLine(opt, l) ==
    <<" ", " ">> \o opt[1] \o Spaces(l - Len(opt[1])) \o <<" ", " ">> \o opt[2]

align_options(options) ==
    Join([n \in 1..Len(options) |-> OptionLine(options[n], MaxFlagLen(options, 1, 0))])

----------------------------------------------------------------------------
(* gen_cmake_command(config), update.py 150-179 *)

\* One record per appended line of generated text: the statement and the
\* expression it is formatted with.
Line(kind, arg) == [kind |-> kind, arg |-> arg]

\* The definitions appended before the executable.
gen_cmake_command_DefinesFirst(cfg) ==
    <<Line("def gen_cmake_command(options, arguments):", <<>>), Line("command = []", <<>>)>>
    \o [n \in 1..Len(extract_list(cfg, N_export)) |->
            Line("command.append({0})", extract_list(cfg, N_export)[n])]
    \o [n \in 1..Len(extract_list(cfg, N_define)) |->
            Line("command.append({0})", extract_list(cfg, N_define)[n])]
    \o <<Line("command.append(arguments['--cmake-executable'])", <<>>),
         Line("command.append('-DCMAKE_BUILD_TYPE={0}'.format(arguments['--type']))", <<>>),
         Line("command.append('-G \"{0}\"'.format(arguments['--generator']))", <<>>),
         Line("if arguments['--cmake-options'] != \"''\":", <<>>),
         Line("command.append(arguments['--cmake-options'])", <<>>),
         Line("if arguments['--prefix']:", <<>>),
         Line("command.append('-DCMAKE_INSTALL_PREFIX=\"{0}\"'.format(arguments['--prefix']))", <<>>),
         Line("return ' '.join(command)", <<>>)>>

gen_cmake_command(cfg) ==
    <<Line("def gen_cmake_command(options, arguments):", <<>>), Line("command = []", <<>>)>>
    \o [n \in 1..Len(extract_list(cfg, N_export)) |->
            Line("command.append({0})", extract_list(cfg, N_export)[n])]
    \o <<Line("command.append(arguments['--cmake-executable'])", <<>>)>>
    \o [n \in 1..Len(extract_list(cfg, N_define)) |->
            Line("command.append({0})", extract_list(cfg, N_define)[n])]
    \o <<Line("command.append('-DCMAKE_BUILD_TYPE={0}'.format(arguments['--type']))", <<>>),
         Line("command.append('-G \"{0}\"'.format(arguments['--generator']))", <<>>),
         Line("if arguments['--cmake-options'] != \"''\":", <<>>),
         Line("command.append(arguments['--cmake-options'])", <<>>),
         Line("if arguments['--prefix']:", <<>>),
         Line("command.append('-DCMAKE_INSTALL_PREFIX=\"{0}\"'.format(arguments['--prefix']))", <<>>),
         Line("return ' '.join(command)", <<>>)>>

----------------------------------------------------------------------------
(* gen_setup(config, relative_path, setup_script_name), update.py 195-262 *)

\* The built-in options, update.py 223-230.
BuiltinOptions ==
    <<
      <<<<"-", "-", "t", "y", "p", "e", "=", "<", "T", "Y", "P", "E", ">">>,
        <<"S", "e", "t", " ", "t", "h", "e", " ", "C", "M", "a", "k", "e",
          " ", "b", "u", "i", "l", "d", " ", "t", "y", "p", "e", " ", "(",
          "d", "e", "b", "u", "g", ",", " ", "r", "e", "l", "e", "a", "s",
          "e", ",", " ", "o", "r", " ", "r", "e", "l", "w", "i", "t", "h",
          "d", "e", "b", ")", " ", "[", "d", "e", "f", "a", "u", "l", "t",
          ":", " ", "r", "e", "l", "e", "a", "s", "e", "]", ".">>>>,
      <<<<"-", "-", "g", "e", "n", "e", "r", "a", "t", "o", "r", "=", "<", "S", "T", "R", "I", "N", "G", ">">>,
        <<"S", "e", "t", " ", "t", "h", "e", " ", "C", "M", "a", "k", "e",
          " ", "b", "u", "i", "l", "d", " ", "s", "y", "s", "t", "e", "m",
          " ", "g", "e", "n", "e", "r", "a", "t", "o", "r", " ", "[", "d",
          "e", "f", "a", "u", "l", "t", ":", " ", "U", "n", "i", "x", " ",
          "M", "a", "k", "e", "f", "i", "l", "e", "s", "]", ".">>>>,
      <<<<"-", "-", "s", "h", "o", "w">>,
        <<"S", "h", "o", "w", " ", "C", "M", "a", "k", "e", " ", "c", "o",
          "m", "m", "a", "n", "d", " ", "a", "n", "d", " ", "e", "x", "i",
          "t", ".">>>>,
      <<<<"-", "-", "c", "m", "a", "k", "e", "-", "e", "x", "e", "c", "u", "t", "a", "b", "l", "e", "=", "<", "C", "M", "A", "K", "E", "_", "E", "X", "E", "C", "U", "T", "A", "B", "L", "E", ">">>,
        <<"S", "e", "t", " ", "t", "h", "e", " ", "C", "M", "a", "k", "e",
          " ", "e", "x", "e", "c", "u", "t", "a", "b", "l", "e", " ", "[",
          "d", "e", "f", "a", "u", "l", "t", ":", " ", "c", "m", "a", "k",
          "e", "]", ".">>>>,
      <<<<"-", "-", "c", "m", "a", "k", "e", "-", "o", "p", "t", "i", "o", "n", "s", "=", "<", "S", "T", "R", "I", "N", "G", ">">>,
        <<"D", "e", "f", "i", "n", "e", " ", "o", "p", "t", "i", "o", "n",
          "s", " ", "t", "o", " ", "C", "M", "a", "k", "e", " ", "[", "d",
          "e", "f", "a", "u", "l", "t", ":", " ", "'", "'", "]", ".">>>>,
      <<<<"-", "-", "p", "r", "e", "f", "i", "x", "=", "<", "P", "A", "T", "H", ">">>,
        <<"S", "e", "t", " ", "t", "h", "e", " ", "i", "n", "s", "t", "a",
          "l", "l", " ", "p", "a", "t", "h", " ", "f", "o", "r", " ", "m",
          "a", "k", "e", " ", "i", "n", "s", "t", "a", "l", "l", ".">>>>,
      <<<<"<", "b", "u", "i", "l", "d", "d", "i", "r", ">">>,
        <<"B", "u", "i", "l", "d", " ", "d", "i", "r", "e", "c", "t", "o",
          "r", "y", ".">>>>,
      <<<<"-", "h", " ", "-", "-", "h", "e", "l", "p">>,
        <<"S", "h", "o", "w", " ", "t", "h", "i", "s", " ", "s", "c", "r",
          "e", "e", "n", ".">>>>
    >>

\* first = opt.split()[0].strip(); rest = ' '.join(opt.split()[1:]).strip()
OptionRow(opt) ==
    LET words == SplitWs(opt.v)
    IN <<words[1], JoinSpace(SubSeq(words, 2, Len(words)), 1)>>

SetupOptions(cfg) ==
    [n \in 1..Len(extract_list(cfg, N_docopt)) |-> OptionRow(extract_list(cfg, N_docopt)[n])]
        \o BuiltinOptions

gen_setup(cfg, relative_path, setup_script_name) ==
    [written |-> TRUE,
     relative_path |-> relative_path,
     setup_script_name |-> setup_script_name,
     options |-> align_options(SetupOptions(cfg)),
     command |-> gen_cmake_command(cfg)]

----------------------------------------------------------------------------
(* gen_cmakelists(project_name, min_cmake_version, relative_path, modules),
   update.py 267-307 *)

\* The printable ASCII characters in code order: Python compares strings by
\* code point.
Ascii ==
    <<" ", "!", "#", "$", "%", "&", "'", "(", ")", "*", "+", ",", "-", ".",
      "/", "0", "1", "2", "3", "4", "5", "6", "7", "8", "9", ":", ";", "<",
      "=", ">", "?", "@", "A", "B", "C", "D", "E", "F", "G", "H", "I", "J",
      "K", "L", "M", "N", "O", "P", "Q", "R", "S", "T", "U", "V", "W", "X",
      "Y", "Z", "[", "\\", "]", "^", "_", "a", "b", "c", "d", "e", "f", "g",
      "h", "i", "j", "k", "l", "m", "n", "o", "p", "q", "r", "s", "t", "u",
      "v", "w", "x", "y", "z", "{", "|", "}", "~">>

Ord(c) == CHOOSE n \in 1..Len(Ascii) : Ascii[n] = c

RECURSIVE LexLess(_, _, _)
LexLess(a, b, n) ==
    IF n > Len(a) THEN n <= Len(b)
    ELSE IF n > Len(b) THEN FALSE
    ELSE IF a[n] = b[n] THEN LexLess(a, b, n + 1)
    ELSE Ord(a[n]) < Ord(b[n])

\* list(set(...)) then .sort()
RECURSIVE SortedSeq(_)
SortedSeq(S) ==
    IF S = {} THEN <<>>
    ELSE LET least == CHOOSE x \in S : \A y \in S \ {x} : LexLess(x, y, 1)
         IN <<least>> \o SortedSeq(S \ {least})

\* os.path.splitext(name)[0]: cut at the last dot, unless only dots
\* precede it in the file name.
RECURSIVE LastDot(_, _)
LastDot(q, n) == IF n = 0 \/ q[n] = "." THEN n ELSE LastDot(q, n - 1)

\* The name cut at its first dot.
SplitExtRoot_FirstDot(q) ==
    IF \E n \in 2..Len(q) : q[n] = "."
    THEN SubSeq(q, 1, (CHOOSE n \in 2..Len(q) : q[n] = "." /\ \A m \in 2..(n - 1) : q[m] # ".") - 1)
    ELSE q

SplitExtRoot(q) ==
    LET dot == LastDot(q, Len(q))
        sep == LastSlash(q, Len(q))
    IN IF dot > sep /\ \E n \in (sep + 1)..(dot - 1) : q[n] # "."
       THEN SubSeq(q, 1, dot - 1) ELSE q

Downloaded == <<"d", "o", "w", "n", "l", "o", "a", "d", "e", "d">>

\* The directories in fetch order, the download directory last.
ModulePaths_FetchOrder(mods) == [n \in 1..Len(mods) |-> mods[n].path] \o <<Downloaded>>

ModulePaths(mods) == SortedSeq({mods[n].path : n \in 1..Len(mods)} \cup {Downloaded})

gen_cmakelists(project_name, min_cmake_version, relative_path, mods) ==
    [written |-> TRUE,
     lines |->
        <<Line("autogenerated_notice", <<>>),
          Line("cmake_minimum_required", min_cmake_version),
          Line("project", project_name),
          Line("set(CMAKE_SKIP_RULE_DEPENDENCY TRUE)", <<>>),
          Line("if(NOT CMAKE_BUILD_TYPE)", <<>>)>>
        \o (IF Len(mods) > 0
            THEN <<Line("# directories which hold included cmake modules", <<>>)>>
            ELSE <<>>)
        \o [n \in 1..Len(ModulePaths(mods)) |->
                Line("set(CMAKE_MODULE_PATH)",
                     StrReplace(PathJoin(relative_path, ModulePaths(mods)[n]),
                                <<"\\">>, <<"/">>))]
        \o (IF Len(mods) > 0 THEN <<Line("# included cmake modules", <<>>)>> ELSE <<>>)
        \o [n \in 1..Len(mods) |-> Line("include", SplitExtRoot(mods[n].name))]]

----------------------------------------------------------------------------
(* The inputs of a generation run: autocmake.yml, the disk, the network *)

Http == <<"h", "t", "t", "p">>
AutocmakePrefix == <<"a", "u", "t", "o", "c", "m", "a", "k", "e", "_">>

\* Sources: two URLs with the same basename, a local module (written with a
\* placeholder in autocmake.yml, as at update.py 81), a local module whose
\* name holds 'http', and a local path into the download directory.
U_a == <<"h", "t", "t", "p", ":", "/", "/", "h", "/", "a", ".", "c">>
U_a2 == <<"h", "t", "t", "p", "s", ":", "/", "/", "g", "/", "a", ".", "c">>
P_b_raw == <<"%", "(", "d", ")", "/", "b", ".", "c">>
P_b == <<"m", "/", "b", ".", "c">>
P_h == <<"m", "/", "h", "t", "t", "p", ".", "c">>
P_d == <<"d", "o", "w", "n", "l", "o", "a", "d", "e", "d", "/", "a", "u", "t", "o", "c", "m", "a", "k", "e", "_", "a", ".", "c">>

D_b == <<"-", "-", "b", "=", "<", "B", ">", " ", "h", " ", "b">>
E_g == <<"'", "G", "=", "1", "'">>
F_b == <<"'", "-", "D", "B", "=", "1", "'">>

\* The module entry of autocmake.yml for a source: {name: [{source: ...}]},
\* with the options, exports and definitions declared beside it.
ModuleEntry(src) ==
    VMap(<<Item(N_k, VList(<<VMap(
        CASE src = P_b ->
                <<Item(N_docopt, VList(<<VStr(D_b)>>)), Item(N_source, VStr(P_b_raw)),
                  Item(N_define, VStr(F_b))>>
          [] src = U_a2 ->
                <<Item(N_source, VList(<<VStr(U_a2)>>)), Item(N_export, VStr(E_g))>>
          [] OTHER -> <<Item(N_source, VStr(src))>>)>>))>>)

SourceChoices == {U_a, U_a2, P_b, P_h, P_d}
LocalChoices == {P_b, P_h}

\* How many sources autocmake.yml lists and how long the project name is.
MaxSources == 2
MaxNameLen == 3

Names == SeqsUpTo({"p", " "}, MaxNameLen)

Yml(has_name, name, has_min, srcs) ==
    VMap((IF has_name THEN <<Item(N_name, VStr(name))>> ELSE <<>>)
         \o (IF has_min THEN <<Item(N_min_cmake_version, VStr(<<"3">>))>> ELSE <<>>)
         \o <<Item(<<"d">>, VStr(<<"m">>)),
              Item(N_modules, VList([n \in 1..Len(srcs) |-> ModuleEntry(srcs[n])]))>>)

Ymls ==
    {Yml(FALSE, <<>>, TRUE, <<>>)}
        \cup {Yml(TRUE, name, FALSE, <<>>) : name \in Names}
        \cup {Yml(TRUE, name, TRUE, q) : name \in Names, q \in SeqsUpTo(SourceChoices, MaxSources)}

\* relative_path, update.py 505, for 'python update.py ..'
RelativePath == <<".", ".">>

\* A run that stops at the first check reads nothing else.
InitMain ==
    /\ pc = "start"
    /\ root_is_dir \in BOOLEAN
    /\ yml \in Ymls
    /\ files \in SUBSET LocalChoices
    /\ ~root_is_dir => (yml = Yml(FALSE, <<>>, TRUE, <<>>) /\ files = {})
    /\ config = VMap(<<>>)
    /\ dl_dir = FALSE
    /\ sources = <<>>
    /\ idx = 0
    /\ modules = <<>>
    /\ fetched = <<>>
    /\ stderr = <<>>
    /\ exit_code = "none"
    /\ cmakelists = NotWritten
    /\ setup = NotWritten
    /\ IdleInterp
    /\ IdleParse
    /\ IdlePrepend
    /\ IdleCall

----------------------------------------------------------------------------
(* main(argv), update.py 474-523, and fetch_modules, update.py 345-424 *)

\* sys.stderr.write(...) then sys.exit(code), or an uncaught exception.
Exit(code, kind, arg) ==
    /\ pc' = "exit"
    /\ exit_code' = code
    /\ stderr' = Append(stderr, Line(kind, arg))

\* update.py 474-477
CheckProjectRoot ==
    /\ pc = "start"
    /\ IF root_is_dir
       THEN pc' = "read" /\ UNCHANGED <<stderr, exit_code>>
       ELSE Exit("-1", "ERROR: {0} is not a directory", <<>>)
    /\ UNCHANGED <<root_is_dir, yml, config, files, dl_dir, sources, idx, modules,
                   fetched, cmakelists, setup, ivars, pvars, cvars, fvars>>

\* update.py 479-482: config = parse_yaml(stream), with no override.
ReadConfig ==
    /\ pc = "read"
    /\ LET cfg == interpolate_self(VMap(ApplyOverride(yml.v, <<>>)))
       IN IF IsError(cfg)
          THEN Exit("1", "Traceback: KeyError", cfg.v) /\ UNCHANGED config
          ELSE config' = cfg /\ pc' = "check_name" /\ UNCHANGED <<stderr, exit_code>>
    /\ UNCHANGED <<root_is_dir, yml, files, dl_dir, sources, idx, modules, fetched,
                   cmakelists, setup, ivars, pvars, cvars, fvars>>

\* The check made on the name stripped on both sides.
NameHasSpace_Strip(project_name) == Contains(RStrip(LStrip(project_name)), <<" ">>)

\* ' ' in project_name.rstrip()
NameHasSpace(project_name) == Contains(RStrip(project_name), <<" ">>)

\* update.py 484-491
CheckName ==
    /\ pc = "check_name"
    /\ IF ~HasKey(config.v, N_name)
       THEN Exit("-1", "ERROR: you have to specify the project name in autocmake.yml", <<>>)
       ELSE IF NameHasSpace(Get(config.v, N_name).v)
       THEN Exit("-1", "ERROR: project name contains a space", <<>>)
       ELSE pc' = "check_version" /\ UNCHANGED <<stderr, exit_code>>
    /\ UNCHANGED <<root_is_dir, yml, config, files, dl_dir, sources, idx, modules,
                   fetched, cmakelists, setup, ivars, pvars, cvars, fvars>>

\* update.py 493-505
CheckVersion ==
    /\ pc = "check_version"
    /\ IF ~HasKey(config.v, N_min_cmake_version)
       THEN Exit("-1", "ERROR: you have to specify min_cmake_version in autocmake.yml", <<>>)
       ELSE pc' = "fetch_begin" /\ UNCHANGED <<stderr, exit_code>>
    /\ UNCHANGED <<root_is_dir, yml, config, files, dl_dir, sources, idx, modules,
                   fetched, cmakelists, setup, ivars, pvars, cvars, fvars>>

\* update.py 352-365: the download directory is made, the sources listed.
FetchBegin ==
    /\ pc = "fetch_begin"
    /\ dl_dir' = TRUE
    /\ sources' = [n \in 1..Len(extract_list(config, N_source)) |->
                        extract_list(config, N_source)[n].v]
    /\ modules' = <<>>
    /\ idx' = 0
    /\ pc' = IF Len(extract_list(config, N_source)) > 0 THEN "fetch" ELSE "gen_cmakelists"
    /\ UNCHANGED <<root_is_dir, yml, config, files, fetched, stderr, exit_code,
                   cmakelists, setup, ivars, pvars, cvars, fvars>>

\* os.path.exists(path)
Exists(path) == path \in files \/ (path = Downloaded /\ dl_dir)

\* What the opener does with src.  A string with an http or https scheme
\* goes to the network: the file arrives, or the server answers with an
\* error (http_error_default: a message and sys.exit(-1)), or the
\* connection fails (an uncaught IOError).  A string with no scheme is
\* opened as a local file: copied when it exists, an uncaught error when it
\* does not.
HasHttpScheme(src) ==
    \/ SubSeq(src, 1, 7) = <<"h", "t", "t", "p", ":", "/", "/">>
    \/ SubSeq(src, 1, 8) = <<"h", "t", "t", "p", "s", ":", "/", "/">>

FetchOutcomes(src) ==
    IF HasHttpScheme(src) THEN {"ok", "http_error", "io_error"}
    ELSE IF Exists(src) THEN {"ok"} ELSE {"io_error"}

\* modules.append(Module(path=path, name=name)), update.py 405-411
Resolved(path, name) ==
    /\ modules' = Append(modules, [path |-> path, name |-> name])
    /\ idx' = idx + 1
    /\ pc' = IF idx + 1 = Len(sources) THEN "gen_cmakelists" ELSE "fetch"
    /\ UNCHANGED <<stderr, exit_code>>

\* update.py 366-374: a source whose text holds 'http' is fetched into the
\* download directory under the prefixed name.  The uncaught error of a
\* missing local file names the file under Python 2 (IOError) and not
\* under Python 3 (URLError).
FetchUrl ==
    /\ pc = "fetch"
    /\ LET src == sources[idx + 1]
           name == AutocmakePrefix \o basename(src)
           dst == PathJoin(Downloaded, name)
       IN /\ Contains(src, Http)
          /\ fetched' = Append(fetched, [src |-> src, dst |-> dst])
          /\ \E outcome \in FetchOutcomes(src) :
                CASE outcome = "ok" ->
                        /\ files' = files \cup {dst}
                        /\ Resolved(Downloaded, name)
                  [] outcome = "http_error" ->
                        /\ Exit("-1", "ERROR: could not fetch {0}", src)
                        /\ UNCHANGED <<files, modules, idx>>
                  [] outcome = "io_error" ->
                        /\ \E named \in {IF HasHttpScheme(src) THEN <<>> ELSE src, <<>>} :
                                Exit("1", "Traceback: IOError", named)
                        /\ UNCHANGED <<files, modules, idx>>
    /\ UNCHANGED <<root_is_dir, yml, config, dl_dir, sources, cmakelists, setup,
                   ivars, pvars, cvars, fvars>>

\* update.py 375-383: any other source must exist on disk.
FetchLocal ==
    /\ pc = "fetch"
    /\ LET src == sources[idx + 1]
       IN /\ ~Contains(src, Http)
          /\ IF Exists(src)
             THEN Resolved(dirname(src), basename(src))
             ELSE /\ Exit("-1", "ERROR: {0} does not exist", src)
                  /\ UNCHANGED <<modules, idx>>
    /\ UNCHANGED <<root_is_dir, yml, config, files, dl_dir, sources, fetched,
                   cmakelists, setup, ivars, pvars, cvars, fvars>>

\* update.py 510-514
WriteCMakeLists ==
    /\ pc = "gen_cmakelists"
    /\ cmakelists' = gen_cmakelists(Get(config.v, N_name).v,
                                    Get(config.v, N_min_cmake_version).v,
                                    RelativePath, modules)
    /\ pc' = "gen_setup"
    /\ UNCHANGED <<root_is_dir, yml, config, files, dl_dir, sources, idx, modules,
                   fetched, stderr, exit_code, setup, ivars, pvars, cvars, fvars>>

\* update.py 499-502
SetupScriptName ==
    IF HasKey(config.v, N_setup_script) THEN Get(config.v, N_setup_script).v
    ELSE <<"s", "e", "t", "u", "p">>

\* update.py 516-523: the last step; main returns and the exit status is 0.
WriteSetup ==
    /\ pc = "gen_setup"
    /\ setup' = gen_setup(config, RelativePath, SetupScriptName)
    /\ pc' = "done"
    /\ exit_code' = "0"
    /\ UNCHANGED <<root_is_dir, yml, config, files, dl_dir, sources, idx, modules,
                   fetched, stderr, cmakelists, ivars, pvars, cvars, fvars>>

Next ==
    \/ CheckProjectRoot
    \/ ReadConfig
    \/ CheckName
    \/ CheckVersion
    \/ FetchBegin
    \/ FetchUrl
    \/ FetchLocal
    \/ WriteCMakeLists
    \/ WriteSetup

Spec == InitMain /\ [][Next]_vars

----------------------------------------------------------------------------
(* Properties of a generation run *)

\* fetch_modules has returned: the run is at or beyond the generators.
FetchReturned == pc \in {"gen_cmakelists", "gen_setup", "done"}

\* A source is an HTTP(S) URL when it starts with the scheme; anything else
\* is a local filesystem path.
IsUrlSource(src) ==
    \/ SubSeq(src, 1, 7) = <<"h", "t", "t", "p", ":", "/", "/">>
    \/ SubSeq(src, 1, 8) = <<"h", "t", "t", "p", "s", ":", "/", "/">>

ExpectedRecord(src) ==
    IF IsUrlSource(src)
    THEN [path |-> <<"d", "o", "w", "n", "l", "o", "a", "d", "e", "d">>, name |-> <<"a", "u", "t", "o", "c", "m", "a", "k", "e", "_">> \o basename(src)]
    ELSE [path |-> dirname(src), name |-> basename(src)]

\* C1: when fetch_modules succeeds, the returned list has one (path, name)
\* record per source, in the order of the sources: ('downloaded',
\* 'autocmake_' + basename) for an HTTP(S) URL, (dirname, basename) for a
\* local path, a local path whose text holds 'http' included.
C1_OneRecordPerSourceInOrder ==
    FetchReturned =>
        /\ Len(modules) = Len(sources)
        /\ \A i \in 1..Len(modules) : modules[i] = ExpectedRecord(sources[i])

\* C2: no two records of the list returned by fetch_modules have the same
\* (path, name) pair, whatever the sources are.
C2_RecordsAreUnique ==
    FetchReturned =>
        \A i, j \in 1..Len(modules) : i # j => modules[i] # modules[j]

Missing(src) == ~IsUrlSource(src) /\ src \notin files /\ ~(src = Downloaded /\ dl_dir)

\* C3: a local source that does not exist ends the run at that source with
\* a non-zero exit status and an error naming the missing path; no later
\* source is fetched or resolved and neither CMakeLists.txt nor the setup
\* script is written.  So a local source that has been resolved exists, and
\* a run stopped in front of a missing local source stopped in that way.
C3_MissingLocalSourceAborts ==
    /\ \A i \in 1..Len(modules) : ~Missing(sources[i])
    /\ (pc = "exit" /\ idx < Len(sources) /\ Missing(sources[idx + 1])) =>
            /\ exit_code \notin {"0", "none"}
            /\ stderr # <<>>
            /\ stderr[Len(stderr)].arg = sources[idx + 1]
            /\ Len(modules) = idx
            /\ \A n \in 1..Len(fetched) :
                    \E i \in 1..(idx + 1) : fetched[n].src = sources[i]
            /\ ~cmakelists.written
            /\ ~setup.written

\* The project name written in autocmake.yml.
NameGiven == HasKey(yml.v, N_name)
ProjectName == Get(yml.v, N_name).v

\* The run was rejected, or has not yet come to the check of the name, and
\* nothing has been made on disk.
RejectedBeforeAnyFile ==
    /\ pc \in {"start", "read", "check_name", "exit"}
    /\ pc = "exit" => exit_code \notin {"0", "none"}
    /\ ~dl_dir
    /\ fetched = <<>>
    /\ modules = <<>>
    /\ ~cmakelists.written
    /\ ~setup.written

\* C4 as stated: a project name with a space at any position, leading,
\* embedded or trailing, is rejected before the download directory is
\* created, any module fetched, or an output written.
C4_Original ==
    (NameGiven /\ Contains(ProjectName, <<" ">>)) => RejectedBeforeAnyFile

\* C4: a project name that still holds a space once its trailing whitespace
\* is removed is rejected with a non-zero exit status before the download
\* directory is created, before any module is fetched and before
\* CMakeLists.txt or the setup script is written.
C4_SpaceInNameRejectedFirst ==
    (NameGiven /\ Contains(RStrip(ProjectName), <<" ">>)) => RejectedBeforeAnyFile

\* A name with a leading or embedded space has been rejected.
C4_Witness ==
    /\ pc = "exit"
    /\ NameGiven
    /\ Contains(RStrip(ProjectName), <<" ">>)
    /\ stderr = <<Line("ERROR: project name contains a space", <<>>)>>
    /\ exit_code = "-1"

L_docopt_a == <<"#", " ", " ", " ", "d", "o", "c", "o", "p", "t", ":", " ", "-", "-", "a", " ", "h">>

\* The text of a module file: a.c documents an option of its own.
ModuleText(src) ==
    IF basename(src) = basename(U_a) THEN <<L_rst, L_hash, L_marker, L_hash, L_docopt_a>>
    ELSE <<L_rst, L_hash, L_prose>>

\* The declarations a module file documents under a key.
Embedded(src, key) ==
    LET r == parse_cmake_module(ModuleText(src), <<>>)
    IN IF r.status = "returned" /\ HasKey(r.config, key)
       THEN Get(r.config, key).v ELSE <<>>

Occurs(text, part) ==
    \E n \in 1..(Len(text) - Len(part) + 1) : SubSeq(text, n, n + Len(part) - 1) = part

Appended(kind, decl) ==
    \E n \in 1..Len(setup.command) : setup.command[n] = Line(kind, decl)

\* C5: every option line, export and definition declared in the
\* documentation block of a fetched module file appears in the generated
\* setup script.
C5_EmbeddedDeclarationsReachSetup ==
    pc = "done" =>
        \A i \in 1..Len(modules) :
            /\ \A n \in 1..Len(Embedded(sources[i], N_docopt)) :
                    Occurs(setup.options, SplitWs(Embedded(sources[i], N_docopt)[n].v)[1])
            /\ \A n \in 1..Len(Embedded(sources[i], N_export)) :
                    Appended("command.append({0})", Embedded(sources[i], N_export)[n])
            /\ \A n \in 1..Len(Embedded(sources[i], N_define)) :
                    Appended("command.append({0})", Embedded(sources[i], N_define)[n])

----------------------------------------------------------------------------
(* prepend_or_set(config, section, option, value, defaults), update.py 312-322.
   config is a ConfigParser: a set of sections and, per section, options
   with string values.  It is kept as the sequence of its
   [section, option, value] items. *)

Opt(section, option, value) == [section |-> section, option |-> option, value |-> value]

\* config.has_option(section, option)
has_option(c, section, option) ==
    /\ section \in c.sections
    /\ \E n \in 1..Len(c.opts) : c.opts[n].section = section /\ c.opts[n].option = option

RawValue(c, section, option) ==
    LET n == CHOOSE n \in 1..Len(c.opts) :
                c.opts[n].section = section /\ c.opts[n].option = option
    IN c.opts[n].value

\* The names a value of the section is formatted with: the options of the
\* section, and over them the vars handed to get, as [k, v] items.
SectionVars(c, section, defaults) ==
    LET own == SelectSeq(c.opts, LAMBDA o : o.section = section)
    IN [n \in 1..Len(own) |-> Item(own[n].option, own[n].value)] \o defaults

\* value % vars for the placeholders '%(name)s': a later item of the table
\* wins over an earlier one of the same name.
RECURSIVE PercentFormat(_, _, _)
PercentFormat(value, table, n) ==
    IF n = 0 THEN value
    ELSE PercentFormat(StrReplace(value, <<"%", "(">> \o table[n].k \o <<")", "s">>,
                                  table[n].v),
                       SubSeq(table, 1, n - 1), n - 1)

\* ConfigParser.get with raw=0: the value is formatted until no '%(' is
\* left; a name that is not defined raises.
RECURSIVE Interpolated(_, _)
Interpolated(value, table) ==
    IF ~Contains(value, <<"%", "(">>) THEN [t |-> "str", v |-> value]
    ELSE LET next == PercentFormat(value, table, Len(table))
         IN IF next = value THEN [t |-> "InterpolationError", v |-> value]
            ELSE Interpolated(next, table)

\* config.get(section, option, 0, defaults).  Under Python 2 the third and
\* fourth arguments are raw and vars; under Python 3 they are keyword-only
\* and the call raises TypeError.
config_get(py, c, section, option, defaults) ==
    IF py = 3 THEN [t |-> "TypeError", v |-> <<>>]
    ELSE Interpolated(RawValue(c, section, option), SectionVars(c, section, defaults))

\* config.set(section, option, value)
config_set(c, section, option, value) ==
    IF section \notin c.sections THEN [t |-> "NoSectionError", c |-> c]
    ELSE IF \E n \in 1..Len(c.opts) : c.opts[n].section = section /\ c.opts[n].option = option
    THEN [t |-> "none",
          c |-> [c EXCEPT !.opts = [n \in 1..Len(c.opts) |->
                    IF c.opts[n].section = section /\ c.opts[n].option = option
                    THEN Opt(section, option, value) ELSE c.opts[n]]]]
    ELSE [t |-> "none", c |-> [c EXCEPT !.opts = Append(c.opts, Opt(section, option, value))]]

\* The call: the exception raised, or "none", and the config afterwards.
prepend_or_set(py, c, section, option, value, defaults) ==
    IF value = <<>> THEN [t |-> "none", c |-> c]
    ELSE IF has_option(c, section, option)
    THEN LET old == config_get(py, c, section, option, defaults)
         IN IF old.t # "str" THEN [t |-> old.t, c |-> c]
            ELSE config_set(c, section, option, value \o <<NL>> \o old.v)
    ELSE config_set(c, section, option, value)

N_s == <<"s">>
N_t == <<"t">>
N_o == <<"o">>
N_p == <<"p">>
V_ref == <<"%", "(", "p", ")", "s">>

\* How many calls are made one after the other.
MaxCalls == 2

PrependValues == {<<>>, <<"v">>, <<"w">>}
PrependDefaults == {<<>>, <<Item(N_p, <<"d">>)>>}

PrependConfigs ==
    {[sections |-> {}, opts |-> <<>>],
     [sections |-> {N_s}, opts |-> <<>>],
     [sections |-> {N_s, N_t}, opts |-> <<Opt(N_s, N_o, <<"a">>)>>],
     [sections |-> {N_s, N_t}, opts |-> <<Opt(N_s, N_o, V_ref), Opt(N_s, N_p, <<"b">>)>>]}

InitPrepend ==
    /\ python \in {2, 3}
    /\ cfgp \in PrependConfigs
    /\ calls = <<>>
    /\ raised = "none"
    /\ IdleInterp
    /\ IdleParse
    /\ IdleMain
    /\ IdleCall

CallPrependOrSet ==
    /\ raised = "none"
    /\ Len(calls) < MaxCalls
    /\ \E section \in {N_s, N_t}, option \in {N_o, N_p}, value \in PrependValues,
          defaults \in PrependDefaults :
            LET r == prepend_or_set(python, cfgp, section, option, value, defaults)
            IN /\ cfgp' = r.c
               /\ raised' = r.t
               /\ calls' = Append(calls, [section |-> section, option |-> option,
                                          value |-> value, before |-> cfgp])
    /\ UNCHANGED <<python, ivars, pvars, mvars, fvars>>

NextPrepend == CallPrependOrSet

SpecPrepend == InitPrepend /\ [][NextPrepend]_vars

\* The value of a field, or Absent.
Absent == [t |-> "absent", v |-> <<>>]

Field(c, section, option) ==
    IF \E n \in 1..Len(c.opts) : c.opts[n].section = section /\ c.opts[n].option = option
    THEN [t |-> "str", v |-> RawValue(c, section, option)]
    ELSE Absent

LastCall == calls[Len(calls)]

\* C11: prepend_or_set sets the field to the new value when the field is
\* absent, and to new value, newline, old value when the field has a
\* value, and leaves every other (section, field) pair as it was.
C11_PrependOrSet ==
    calls # <<>> =>
        LET c == LastCall
            old == Field(c.before, c.section, c.option)
        IN /\ raised = "none"
           /\ Field(cfgp, c.section, c.option) =
                IF old = Absent THEN [t |-> "str", v |-> c.value]
                ELSE [t |-> "str", v |-> c.value \o <<NL>> \o old.v]
           /\ \A section \in {N_s, N_t}, option \in {N_o, N_p} :
                <<section, option>> # <<c.section, c.option>> =>
                    Field(cfgp, section, option) = Field(c.before, section, option)

----------------------------------------------------------------------------
(* extract_list(config, section) called on its own *)

Returned(v) == [t |-> "returned", v |-> v]

\* How many declarations (module entries holding one field) a configuration has.
MaxFields == 3

\* A declaration: {field: value}, the value a scalar, a list with a nested
\* list, or a mapping.
Declarations ==
    {VMap(<<Item(N_source, VStr(N_a))>>),
     VMap(<<Item(N_source, VList(<<VStr(N_b), VList(<<VStr(N_c)>>)>>))>>),
     VMap(<<Item(N_source, VMap(<<Item(N_a, VStr(N_b))>>))>>),
     VMap(<<Item(N_docopt, VStr(N_k))>>)}

\* Where a declaration is written: in the list of the module key before
\* it, under a further key of the same module (the keys of a module in the
\* order module.items() yields them), or in a new module.
Places == {"list", "key", "module"}

ModuleKey(n) == <<"k">> \o Digits(n)

AddDeclaration(ms, x, place, n) ==
    IF ms = <<>> \/ place = "module"
    THEN Append(ms, VMap(<<Item(ModuleKey(n), VList(<<x>>))>>))
    ELSE LET m == ms[Len(ms)].v
             last == m[Len(m)]
         IN [ms EXCEPT ![Len(ms)] =
                IF place = "key"
                THEN VMap(Append(m, Item(ModuleKey(n), VList(<<x>>))))
                ELSE VMap([m EXCEPT ![Len(m)] = Item(last.k, VList(Append(last.v.v, x)))])]

RECURSIVE WrittenModules(_, _, _)
WrittenModules(xs, places, n) ==
    IF n = 0 THEN <<>>
    ELSE AddDeclaration(WrittenModules(xs, places, n - 1), xs[n], places[n], n)

ExtractInputs ==
    {[config |-> VMap(<<Item(N_name, VStr(S_p))>>), section |-> section, declared |-> <<>>] :
        section \in {N_source, N_docopt}}
    \cup
    {[config |-> VMap(<<Item(N_name, VStr(S_p)),
                        Item(N_modules, VList(WrittenModules(xs, places, Len(xs))))>>),
      section |-> section,
      declared |-> xs] :
        xs \in SeqsUpTo(Declarations, MaxFields),
        places \in [1..MaxFields -> Places],
        section \in {N_source, N_docopt}}

InitExtract ==
    /\ fn = "extract_list"
    /\ args \in ExtractInputs
    /\ ret = NotCalled
    /\ fpc = "ready"
    /\ IdleInterp
    /\ IdleParse
    /\ IdleMain
    /\ IdlePrepend

CallExtractList ==
    /\ fpc = "ready"
    /\ fn = "extract_list"
    /\ ret' = Returned(extract_list(args.config, args.section))
    /\ fpc' = "returned"
    /\ UNCHANGED <<fn, args, ivars, pvars, mvars, cvars>>

NextExtract == CallExtractList

SpecExtract == InitExtract /\ [][NextExtract]_vars

\* What a declaration gives for a field: nothing when it does not hold the
\* field, the elements of a sequence value, a scalar value itself.
Given(x, section) ==
    IF x.v[1].k # section THEN <<>>
    ELSE IF x.v[1].v.t = "list" THEN x.v[1].v.v
    ELSE <<x.v[1].v>>

RECURSIVE GivenAll(_, _, _)
GivenAll(xs, n, section) ==
    IF n > Len(xs) THEN <<>>
    ELSE Given(xs[n], section) \o GivenAll(xs, n + 1, section)

\* No value declared under the field is a mapping.
ScalarsAndSequences(xs, section) ==
    \A n \in 1..Len(xs) : xs[n].v[1].k = section => xs[n].v[1].v.t # "map"

\* C12: extract_list returns, in declaration order, the values found under
\* the field, a sequence value giving each of its elements (one level
\* only) and a scalar value itself, nothing reordered, dropped or
\* deduplicated; with no modules key the result is the empty list.
C12_ExtractListConcatenates ==
    (fn = "extract_list" /\ fpc = "returned"
        /\ ScalarsAndSequences(args.declared, args.section)) =>
            ret = Returned(GivenAll(args.declared, 1, args.section))

\* Three declarations spread over modules, one of them a list holding a
\* nested list, have been extracted.
C12_Witness ==
    /\ fn = "extract_list" /\ fpc = "returned"
    /\ ScalarsAndSequences(args.declared, args.section)
    /\ Len(args.declared) = MaxFields
    /\ Len(Get(args.config.v, N_modules).v) > 1
    /\ \E n \in 1..Len(ret.v) : ret.v[n].t = "list"
    /\ Len(ret.v) > Len(args.declared)

----------------------------------------------------------------------------
(* gen_cmakelists(project_name, min_cmake_version, relative_path, modules)
   called on its own *)

D_empty == <<>>
D_M == <<"M">>
D_m == <<"m">>
D_mn == <<"m", "/", "n">>
D_mbn == <<"m", "\\", "n">>

F_a == <<"a", ".", "c", "m", "a", "k", "e">>
F_b2 == <<"b">>
F_hidden == <<".", "h", "i", "d", "d", "e", "n">>
F_cd == <<"c", ".", "d", ".", "c", "m", "a", "k", "e">>
F_auto == <<"a", "u", "t", "o", "c", "m", "a", "k", "e", "_", "a", ".", "c">>

Module(path, name) == [path |-> path, name |-> name]

ModuleChoices ==
    {Module(Downloaded, F_auto), Module(D_m, F_a), Module(D_m, F_cd), Module(D_M, F_b2),
     Module(D_mn, F_hidden), Module(D_mbn, F_a), Module(D_empty, F_a)}

\* How many modules were fetched.
MaxModules == 3

InitCMakeLists ==
    /\ fn = "gen_cmakelists"
    /\ \E mods \in SeqsUpTo(ModuleChoices, MaxModules), relative_path \in {<<".">>, RelativePath} :
            args = [project_name |-> S_p, min_cmake_version |-> <<"3">>,
                    relative_path |-> relative_path, modules |-> mods]
    /\ ret = NotCalled
    /\ fpc = "ready"
    /\ IdleInterp
    /\ IdleParse
    /\ IdleMain
    /\ IdlePrepend

CallGenCmakelists ==
    /\ fpc = "ready"
    /\ fn = "gen_cmakelists"
    /\ ret' = Returned(gen_cmakelists(args.project_name, args.min_cmake_version,
                                      args.relative_path, args.modules).lines)
    /\ fpc' = "returned"
    /\ UNCHANGED <<fn, args, ivars, pvars, mvars, cvars>>

NextCMakeLists == CallGenCmakelists

SpecCMakeLists == InitCMakeLists /\ [][NextCMakeLists]_vars

CMakeListsDone == fn = "gen_cmakelists" /\ fpc = "returned"

\* The directories of the model in increasing lexicographic order, as
\* Python compares strings.
DirectoryOrder == <<D_empty, D_M, Downloaded, D_m, D_mn, D_mbn>>

InOrder(S) == SelectSeq(DirectoryOrder, LAMBDA x : x \in S)

\* The CMAKE_MODULE_PATH line of a directory names it below relative_path,
\* with forward slashes.
PathLine(relative_path, directory) ==
    Line("set(CMAKE_MODULE_PATH)",
         StrReplace(PathJoin(relative_path, directory), <<"\\">>, <<"/">>))

PathLines(lines) == SelectSeq(lines, LAMBDA l : l.kind = "set(CMAKE_MODULE_PATH)")

DirectoriesOf(mods) == {mods[n].path : n \in 1..Len(mods)}

LinesFor(relative_path, S) ==
    [n \in 1..Len(InOrder(S)) |-> PathLine(relative_path, InOrder(S)[n])]

\* C13 as stated: one CMAKE_MODULE_PATH line per distinct directory among
\* the modules' paths, in increasing order, and no line for a directory
\* that holds no module.
C13_Original ==
    CMakeListsDone =>
        PathLines(ret.v) = LinesFor(args.relative_path, DirectoriesOf(args.modules))

\* C13: the CMAKE_MODULE_PATH lines are in strictly increasing
\* lexicographic order of directory, one line per distinct directory among
\* the modules' paths and the directory 'downloaded', which has its line
\* whether or not a module was fetched into it.
C13_ModulePathsSortedAndDistinct ==
    CMakeListsDone =>
        PathLines(ret.v) =
            LinesFor(args.relative_path, DirectoriesOf(args.modules) \cup {Downloaded})

\* Modules fetched out of order into three directories, one of them twice.
C13_Witness ==
    /\ CMakeListsDone
    /\ Len(args.modules) = MaxModules
    /\ args.modules[1].path = D_m
    /\ args.modules[2].path = D_M
    /\ args.modules[3].path = D_m
    /\ Len(PathLines(ret.v)) = 3

\* The file names of the model with their extension stripped.
Stem(name) ==
    CASE name = F_a -> <<"a">>
      [] name = F_b2 -> <<"b">>
      [] name = F_hidden -> F_hidden
      [] name = F_cd -> <<"c", ".", "d">>
      [] name = F_auto -> <<"a", "u", "t", "o", "c", "m", "a", "k", "e", "_", "a">>

IncludeLines(lines) == SelectSeq(lines, LAMBDA l : l.kind = "include")

\* C14: gen_cmakelists emits one include() line per module record, in the
\* order of the fetched list, each naming the module's file name with its
\* extension stripped, and every include() line comes after every
\* CMAKE_MODULE_PATH line.
C14_IncludesInFetchOrder ==
    CMakeListsDone =>
        /\ IncludeLines(ret.v) =
                [n \in 1..Len(args.modules) |-> Line("include", Stem(args.modules[n].name))]
        /\ \A i, j \in 1..Len(ret.v) :
                (ret.v[i].kind = "include" /\ ret.v[j].kind = "set(CMAKE_MODULE_PATH)")
                    => j < i

\* Modules whose fetch order is not the order of their directories, one
\* with two dots in its name.
C14_Witness ==
    /\ CMakeListsDone
    /\ Len(args.modules) = MaxModules
    /\ args.modules[1] = Module(D_m, F_cd)
    /\ args.modules[2] = Module(D_M, F_b2)
    /\ args.modules[3] = Module(D_mn, F_hidden)
    /\ Len(IncludeLines(ret.v)) = MaxModules

----------------------------------------------------------------------------
(* align_options(options) called on its own *)

FlagChoices == {<<"-", "a">>, <<"-", "-", "b", "b">>, <<"-", "-", "c", "c", "c", "=", "<", "C", ">">>}
HelpChoices == {<<"h">>, <<"x", " ", "y">>}

\* How many option rows are aligned.
MaxOptions == 3

InitAlign ==
    /\ fn = "align_options"
    /\ \E options \in SeqsUpTo({<<flag, help>> : flag \in FlagChoices, help \in HelpChoices},
                               MaxOptions) :
            args = [options |-> options]
    /\ ret = NotCalled
    /\ fpc = "ready"
    /\ IdleInterp
    /\ IdleParse
    /\ IdleMain
    /\ IdlePrepend

CallAlignOptions ==
    /\ fpc = "ready"
    /\ fn = "align_options"
    /\ ret' = Returned(align_options(args.options))
    /\ fpc' = "returned"
    /\ UNCHANGED <<fn, args, ivars, pvars, mvars, cvars>>

NextAlign == CallAlignOptions

SpecAlign == InitAlign /\ [][NextAlign]_vars

AlignDone == fn = "align_options" /\ fpc = "returned" /\ args.options # <<>>

\* The length of the longest flag signature of the list.
LongestFlag(options) ==
    CHOOSE l \in {Len(options[n][1]) : n \in 1..Len(options)} :
        \A n \in 1..Len(options) : Len(options[n][1]) <= l

\* The line shows the row: after a two-space indent its flag, then spaces
\* only, and from the offset on (counted from 0) its help text.
ShowsRowAt(line, row, offset) ==
    /\ Len(line) = offset + Len(row[2])
    /\ SubSeq(line, 3, 2 + Len(row[1])) = row[1]
    /\ \A n \in (1..2) \cup ((3 + Len(row[1]))..offset) : line[n] = " "
    /\ SubSeq(line, offset + 1, Len(line)) = row[2]

RowsAlignedAt(offset) ==
    LET lines == Split(ret.v, <<NL>>)
    IN /\ Len(lines) = Len(args.options)
       /\ \A n \in 1..Len(lines) : ShowsRowAt(lines[n], args.options[n], offset)

\* C15 as stated: the help text of every line starts at the offset equal
\* to the length of the longest flag signature plus 2.
C15_Original == AlignDone => RowsAlignedAt(LongestFlag(args.options) + 2)

\* C15: align_options renders one line per row in input order, and the
\* help text of every line starts at the same offset within its line: the
\* length of the longest flag signature plus 4, which is the two-space
\* indent, the flag column and two more spaces.
C15_HelpTextsAligned == AlignDone => RowsAlignedAt(LongestFlag(args.options) + 4)

\* Rows with flags of three different lengths have been aligned.
C15_Witness ==
    /\ AlignDone
    /\ Len(args.options) = MaxOptions
    /\ Cardinality({Len(args.options[n][1]) : n \in 1..Len(args.options)}) = 3
    /\ Len(args.options[1][1]) < LongestFlag(args.options)

----------------------------------------------------------------------------
(* gen_cmake_command(config) called on its own *)

E_h == <<"'", "H", "=", "2", "'">>
F_c == <<"'", "-", "D", "C", "=", "2", "'">>

CommandDeclarations ==
    {VMap(<<Item(N_export, VStr(E_g))>>),
     VMap(<<Item(N_export, VList(<<VStr(E_h), VStr(E_g)>>))>>),
     VMap(<<Item(N_define, VStr(F_b))>>),
     VMap(<<Item(N_define, VList(<<VStr(F_c), VStr(F_b)>>))>>),
     VMap(<<Item(N_docopt, VStr(D_b))>>)}

InitCommand ==
    /\ fn = "gen_cmake_command"
    /\ \E xs \in SeqsUpTo(CommandDeclarations, MaxFields),
          places \in [1..MaxFields -> {"list", "module"}] :
            args = [config |-> VMap(<<Item(N_name, VStr(S_p)),
                                      Item(N_modules,
                                           VList(WrittenModules(xs, places, Len(xs))))>>),
                    declared |-> xs]
    /\ ret = NotCalled
    /\ fpc = "ready"
    /\ IdleInterp
    /\ IdleParse
    /\ IdleMain
    /\ IdlePrepend

CallGenCmakeCommand ==
    /\ fpc = "ready"
    /\ fn = "gen_cmake_command"
    /\ ret' = Returned(gen_cmake_command(args.config))
    /\ fpc' = "returned"
    /\ UNCHANGED <<fn, args, ivars, pvars, mvars, cvars>>

NextCommand == CallGenCmakeCommand

SpecCommand == InitCommand /\ [][NextCommand]_vars

CommandDone == fn = "gen_cmake_command" /\ fpc = "returned"

\* The statements of the emitted text that append to the command list.
AppendStatements ==
    {"command.append({0})",
     "command.append(arguments['--cmake-executable'])",
     "command.append('-DCMAKE_BUILD_TYPE={0}'.format(arguments['--type']))",
     "command.append('-G \"{0}\"'.format(arguments['--generator']))",
     "command.append(arguments['--cmake-options'])",
     "command.append('-DCMAKE_INSTALL_PREFIX=\"{0}\"'.format(arguments['--prefix']))"}

Appends(lines) == SelectSeq(lines, LAMBDA l : l.kind \in AppendStatements)

Appending(xs) == [n \in 1..Len(xs) |-> Line("command.append({0})", xs[n])]

\* C16: the emitted text appends, in this order, every declared export (in
\* extract_list order), the CMake executable of the --cmake-executable
\* argument, every declared definition (in extract_list order), the
\* build-type flag, the generator flag, the extra cmake options and the
\* install-prefix flag.
C16_CommandOrder ==
    CommandDone =>
        Appends(ret.v) =
            Appending(GivenAll(args.declared, 1, N_export))
            \o <<Line("command.append(arguments['--cmake-executable'])", <<>>)>>
            \o Appending(GivenAll(args.declared, 1, N_define))
            \o <<Line("command.append('-DCMAKE_BUILD_TYPE={0}'.format(arguments['--type']))", <<>>),
                 Line("command.append('-G \"{0}\"'.format(arguments['--generator']))", <<>>),
                 Line("command.append(arguments['--cmake-options'])", <<>>),
                 Line("command.append('-DCMAKE_INSTALL_PREFIX=\"{0}\"'.format(arguments['--prefix']))", <<>>)>>

\* A configuration that declares its definitions before its exports.
C16_Witness ==
    /\ CommandDone
    /\ Len(args.declared) = MaxFields
    /\ args.declared[1].v[1].k = N_define
    /\ args.declared[MaxFields].v[1].k = N_export
    /\ Len(GivenAll(args.declared, 1, N_export)) > 1

----------------------------------------------------------------------------
(* parse_yaml(stream) called on its own, the keys of the declaration
   written in every order *)

\* The line of a declaration without its comment prefix.
Dedented(line) == SubSeq(line, 5, Len(line))

YamlLines == {Dedented(L_major), Dedented(L_minor), Dedented(L_a), Dedented(L_b), Dedented(L_e)}

\* How many keys the declaration has.
MaxKeys == 3

InitYaml ==
    /\ fn = "parse_yaml"
    /\ \E lines \in {q \in SeqsUpTo(YamlLines, MaxKeys) : NoRepeat(q)} :
            args = [lines |-> lines, stream |-> Join(lines)]
    /\ ret = NotCalled
    /\ fpc = "ready"
    /\ IdleInterp
    /\ IdleParse
    /\ IdleMain
    /\ IdlePrepend

CallParseYaml ==
    /\ fpc = "ready"
    /\ fn = "parse_yaml"
    /\ ret' = parse_yaml(args.stream, <<>>)
    /\ fpc' = "returned"
    /\ UNCHANGED <<fn, args, ivars, pvars, mvars, cvars>>

NextYaml == CallParseYaml

SpecYaml == InitYaml /\ [][NextYaml]_vars

\* The same lines in another order.
Orderings(lines) ==
    {q \in SeqsUpTo({lines[n] : n \in 1..Len(lines)}, Len(lines)) :
        Len(q) = Len(lines) /\ NoRepeat(q)}

ItemsOf(r) == {r.v[n] : n \in 1..Len(r.v)}

\* C17: after parse_yaml has interpolated a declaration against its own
\* keys, no string value retains a placeholder %(k) naming a declared key
\* k, and the result is the same for every order of the keys.
C17_SelfInterpolationIsComplete ==
    (fn = "parse_yaml" /\ fpc = "returned" /\ ret.t = "map") =>
        /\ \A n, m \in 1..Len(ret.v) :
                ret.v[n].v.t = "str" =>
                    ~Occurs(ret.v[n].v.v, <<"%", "(">> \o ret.v[m].k \o <<")">>)
        /\ \A q \in Orderings(args.lines) :
                LET other == parse_yaml(Join(q), <<>>)
                IN other.t = "map" /\ ItemsOf(other) = ItemsOf(ret)

====
